---- MODULE Spec2Model ----
(***************************************************************************)
(* The scope stack of sentry-rust (src/src/scope.rs): one process-wide     *)
(* stack behind a mutex, one lazily seeded stack per non-main thread, the  *)
(* copy-on-push layers, and the guards returned by push_scope().           *)
(***************************************************************************)
EXTENDS Integers, Sequences, FiniteSets, TLC

\* ------------------------------------------------------------------ bounds
MaxSteps == 4      \* operations in one behaviour
MaxEdits == 2      \* of these, client bindings and scope mutations

\* ------------------------------------------------------- threads and values
MainRawId == 0                    \* raw thread id that is_main_thread() tests for
NonMain == {1, 2}                 \* raw ids of the other threads
Threads == {MainRawId} \cup NonMain

Clients == {"C1", "C2"}
TagKeys == {"env"}
ExtraKeys == {"build"}
TagValues == {[str |-> "prod"], [int |-> 42]}   \* V: ToString arguments
ExtraValues == {42}
Users == {"u1"}
Crumbs == {"b1"}

None == <<>>
Some(x) == <<x>>

\* ------------------------------------------------------------ value.to_string()
Digit(d) ==
    CASE d = 0 -> "0" [] d = 1 -> "1" [] d = 2 -> "2" [] d = 3 -> "3"
      [] d = 4 -> "4" [] d = 5 -> "5" [] d = 6 -> "6" [] d = 7 -> "7"
      [] d = 8 -> "8" [] d = 9 -> "9"

RECURSIVE IntToString(_)
IntToString(n) ==
    IF n < 10 THEN Digit(n) ELSE IntToString(n \div 10) \o Digit(n % 10)

to_string(value) ==
    IF "int" \in DOMAIN value THEN IntToString(value.int) ELSE value.str

\* ------------------------------------------------- im::HashMap as a set of pairs
\* mutant: an entry with the same key is not replaced
im_insert_keep(m, k, v) == m \cup {<<k, v>>}

im_insert(m, k, v) == {p \in m : p[1] # k} \cup {<<k, v>>}
im_remove(m, k) == {p \in m : p[1] # k}

\* ----------------------------------------------------------------------- Scope
DefaultScope == [breadcrumbs |-> <<>>, user |-> None, extra |-> {}, tags |-> {}]
DefaultLayer == [client |-> None, scope |-> DefaultScope]

\* mutant: the user survives the reset
clear_keep_user(scope) == [DefaultScope EXCEPT !.user = scope.user]

clear(scope) == DefaultScope
set_user(scope, user) == [scope EXCEPT !.user = user]
set_tag(scope, key, value) ==
    [scope EXCEPT !.tags = im_insert(@, key, to_string(value))]
remove_tag(scope, key) == [scope EXCEPT !.tags = im_remove(@, key)]
set_extra(scope, key, value) == [scope EXCEPT !.extra = im_insert(@, key, value)]
remove_extra(scope, key) == [scope EXCEPT !.extra = im_remove(@, key)]
push_back(scope, crumb) == [scope EXCEPT !.breadcrumbs = Append(@, crumb)]

\* one call of a method of Scope, as a value
TagCalls ==
    {[fn |-> "clear"]}
    \cup {[fn |-> "set_user", user |-> u] : u \in {None, Some("u2")}}
    \cup {[fn |-> "set_tag", key |-> k, value |-> v] :
             k \in {"env", "build"}, v \in TagValues}
    \cup {[fn |-> "remove_tag", key |-> k] : k \in {"env", "build"}}

ExtraCalls ==
    {[fn |-> "set_extra", key |-> k, value |-> v] :
        k \in {"env", "build"}, v \in ExtraValues}
    \cup {[fn |-> "remove_extra", key |-> k] : k \in {"env", "build"}}

call(m, scope) ==
    CASE m.fn = "clear" -> clear(scope)
      [] m.fn = "set_user" -> set_user(scope, m.user)
      [] m.fn = "set_tag" -> set_tag(scope, m.key, m.value)
      [] m.fn = "remove_tag" -> remove_tag(scope, m.key)
      [] m.fn = "set_extra" -> set_extra(scope, m.key, m.value)
      [] m.fn = "remove_extra" -> remove_extra(scope, m.key)

\* scopes that calls of these methods lead to, to start from
Scopes ==
    {[breadcrumbs |-> b, user |-> u, extra |-> e, tags |-> g] :
        b \in {<<>>, <<"b1">>},
        u \in {None, Some("u1")},
        e \in {{}, {<<"build", 7>>}},
        g \in {{}, {<<"env", "prod">>}, {<<"env", "42">>, <<"build", "prod">>}}}

\* ----------------------------------------------------------------------- Stack
for_process == <<DefaultLayer>>

\* mutant: the new layer is a fresh default one instead of a clone
push_default(layers) == Append(layers, DefaultLayer)

push(layers) == Append(layers, layers[Len(layers)])

\* mutant: the current layer is not removed
pop_keep(layers) == [panic |-> Len(layers) <= 1, layers |-> layers]

\* mutant: no check that a layer would remain
pop_unchecked(layers) ==
    [panic |-> FALSE, layers |-> SubSeq(layers, 1, Len(layers) - 1)]

pop(layers) ==
    IF Len(layers) <= 1
    THEN [panic |-> TRUE, layers |-> layers]
    ELSE [panic |-> FALSE, layers |-> SubSeq(layers, 1, Len(layers) - 1)]

\* mutant: the client is bound on every layer
bind_client_all(layers, c) ==
    [i \in 1..Len(layers) |-> [layers[i] EXCEPT !.client = Some(c)]]

bind_client(layers, c) == [layers EXCEPT ![Len(layers)].client = Some(c)]

\* mutant: the client of the bottom layer is returned
client_bottom(layers) == layers[1].client

client(layers) == layers[Len(layers)].client

scope_mut(layers) == layers[Len(layers)].scope

\* mutant: the layer below shares the scope that is written
scope_mut_store_shared(layers, scope) ==
    [i \in 1..Len(layers) |->
        IF i >= Len(layers) - 1 THEN [layers[i] EXCEPT !.scope = scope]
        ELSE layers[i]]

\* a write through the &mut Scope that scope_mut() returned
scope_mut_store(layers, scope) == [layers EXCEPT ![Len(layers)].scope = scope]

\* mutant: the token is taken before the layer is pushed
token_before(ptr, layers) == <<ptr, Len(layers) - 1>>

\* mutant: the token does not record the depth
token_no_depth(ptr, layers) == <<ptr, 0>>

token(ptr, layers) == <<ptr, Len(layers)>>

\* mutant: the layer is popped before the token is compared
pop_then_check(ptr, layers, tok) ==
    [layers |-> pop(layers).layers,
     err |-> IF token(ptr, layers) # tok THEN "token_mismatch"
             ELSE IF pop(layers).panic THEN "pop_empty" ELSE "ok"]

\* the closure ScopeGuard::drop passes to with_stack, for a guard holding tok
check_and_pop(ptr, layers, tok) ==
    IF token(ptr, layers) # tok
    THEN [layers |-> layers, err |-> "token_mismatch"]
    ELSE [layers |-> pop(layers).layers,
          err |-> IF pop(layers).panic THEN "pop_empty" ELSE "ok"]

\* mutant: the bottom layer of the process stack is snapshotted
for_thread_bottom(process) == <<process[1]>>

for_thread(process) ==
    <<[client |-> client(process), scope |-> scope_mut(process)]>>

\* mutant: the callback is invoked whether or not a client is bound
invoke_unbound(layers, crumb) ==
    [layers |-> scope_mut_store(layers, push_back(scope_mut(layers), crumb)),
     ret |-> <<"called", client(layers)>>]

\* the closure with_client_and_scope passes to with_stack: the callback gets
\* the current client and the current scope, or is not called at all
if_let_some_client(layers, crumb) ==
    IF client(layers) # None
    THEN [layers |-> scope_mut_store(layers, push_back(scope_mut(layers), crumb)),
          ret |-> <<"called", client(layers)>>]
    ELSE [layers |-> layers, ret |-> <<"default">>]

\* mutant: every thread is taken for the main thread
is_main_thread_always(t) == TRUE

is_main_thread(t) == t = MainRawId

\* ------------------------------------------------------------------- state
VARIABLES
    PROCESS_STACK,   \* layers of the process-wide stack (inside the mutex)
    poisoned,        \* the mutex was held by a closure that panicked
    THREAD_STACK,    \* layers of each non-main thread's stack, once initialised
    seeded,          \* non-main threads whose thread-local has been initialised
    guards,          \* the ScopeGuards handed out, with what became of them
    track,           \* the one sequence of pushes and pops being observed
    steps,           \* operations run so far
    edits,           \* client bindings and scope mutations made so far
    last,            \* how the last operation ended and what it returned
    lock,            \* the thread that holds the mutex of PROCESS_STACK, if any
    calls            \* where each thread is in a call that takes that mutex

vars == <<PROCESS_STACK, poisoned, THREAD_STACK, seeded, guards, track, steps,
          edits, last, lock, calls>>

\* a thread that is not inside with_process_stack()
NoCall == [at |-> "idle", op |-> "none", arg |-> None, local |-> <<>>]

Idle == [phase |-> "idle", ptr |-> MainRawId, start |-> <<>>, first |-> "none",
         net |-> 0, edited |-> FALSE]

\* what an operation leaves for its caller to see: which operation it was, on
\* which thread, how it ended ("ok" or the panic), and what it returned
Event(op, t, err, ret, arg) ==
    [op |-> op, thread |-> t, err |-> err, ret |-> ret, arg |-> arg]

Init ==
    /\ PROCESS_STACK = for_process
    /\ poisoned = FALSE
    /\ THREAD_STACK = [t \in NonMain |-> <<>>]
    /\ seeded = {}
    /\ guards = <<>>
    /\ track = Idle
    /\ steps = 0
    /\ edits = 0
    /\ last = Event("init", MainRawId, "ok", None, None)
    /\ lock = None
    /\ calls = [t \in Threads |-> NoCall]

\* ----------------------------------------------------------------- routing
\* mutant: every call takes the process lock, whatever the thread
LockPanics_every(t) == poisoned

\* PROCESS_STACK.lock().unwrap() panics on a poisoned mutex; a non-main thread
\* takes the lock only inside the initialiser of its thread-local.
LockPanics(t) == poisoned /\ (is_main_thread(t) \/ t \notin seeded)

\* the stack with_stack() hands to its closure on thread t
Routed(t) ==
    IF is_main_thread(t) THEN PROCESS_STACK
    ELSE IF t \in seeded THEN THREAD_STACK[t]
    ELSE for_thread(PROCESS_STACK)

\* mutant: the token does not tell the stacks apart
stack_ptr_shared(t) == MainRawId

\* `self as *const Stack` of the stack routed to thread t
stack_ptr(t) == IF is_main_thread(t) THEN MainRawId ELSE t

\* mutant: a panic under the process lock leaves the lock usable
with_stack_unpoisoned(t, layers, err) ==
    IF LockPanics(t)
    THEN UNCHANGED <<PROCESS_STACK, poisoned, THREAD_STACK, seeded>>
    ELSE IF is_main_thread(t)
    THEN /\ PROCESS_STACK' = layers
         /\ UNCHANGED <<poisoned, THREAD_STACK, seeded>>
    ELSE /\ THREAD_STACK' = [THREAD_STACK EXCEPT ![t] = layers]
         /\ seeded' = seeded \cup {t}
         /\ UNCHANGED <<PROCESS_STACK, poisoned>>

\* with_stack(f) on thread t, where f leaves the routed stack as `layers` and
\* ends with `err` ("ok", or the panic it raised)
with_stack(t, layers, err) ==
    IF LockPanics(t)
    THEN UNCHANGED <<PROCESS_STACK, poisoned, THREAD_STACK, seeded>>
    ELSE IF is_main_thread(t)
    THEN /\ PROCESS_STACK' = layers
         /\ poisoned' = (err # "ok")
         /\ UNCHANGED <<THREAD_STACK, seeded>>
    ELSE /\ THREAD_STACK' = [THREAD_STACK EXCEPT ![t] = layers]
         /\ seeded' = seeded \cup {t}
         /\ UNCHANGED <<PROCESS_STACK, poisoned>>

Outcome(t, err) == IF LockPanics(t) THEN "poisoned" ELSE err

\* ------------------------------------------- bookkeeping of pushes and pops
\* At most one sequence of pushes and pops, on one stack, is observed in a
\* behaviour. It begins with a push or a pop (`begin`) and is over ("done") once
\* as many pops as pushes have been made since; `edited` tells whether a client
\* was bound or the scope mutated on that stack meanwhile. The next change of
\* that stack ends the observation ("over").
Observe(tr, t, kind, begin, before) ==
    LET d == IF kind = "push" THEN 1 ELSE -1 IN
    IF tr.phase = "idle"
    THEN IF begin /\ kind # "edit"
         THEN [phase |-> "active", ptr |-> stack_ptr(t), start |-> before,
               first |-> kind, net |-> d, edited |-> FALSE]
         ELSE tr
    ELSE IF tr.ptr # stack_ptr(t) \/ tr.phase = "over" THEN tr
    ELSE IF tr.phase = "done" THEN [Idle EXCEPT !.phase = "over"]
    ELSE IF kind = "edit" THEN [tr EXCEPT !.edited = TRUE]
    ELSE [tr EXCEPT !.net = @ + d,
                    !.phase = IF tr.net + d = 0 THEN "done" ELSE "active"]

\* the layer at index `depth` of the stack at ptr is gone: the guards made for
\* it no longer have their layer
Popped(gs, ptr, depth) ==
    [i \in DOMAIN gs |->
        IF gs[i].tok = <<ptr, depth>> THEN [gs[i] EXCEPT !.live = FALSE] ELSE gs[i]]

\* ----------------------------------------------------------------- actions
\* with_stack(|stack| stack.push())
Push(t, begin) ==
    LET s == Routed(t) IN
    /\ with_stack(t, push(s), "ok")
    /\ track' = IF LockPanics(t) THEN track
                ELSE Observe(track, t, "push", begin, s)
    /\ last' = Event("push", t, Outcome(t, "ok"), None, None)
    /\ UNCHANGED <<guards, edits>>

\* with_stack(|stack| stack.pop())
Pop(t, begin) ==
    LET s == Routed(t)
        r == pop(s)
        err == IF r.panic THEN "pop_empty" ELSE "ok"
    IN
    /\ with_stack(t, r.layers, err)
    /\ track' = IF LockPanics(t) \/ r.panic THEN track
                ELSE Observe(track, t, "pop", begin, s)
    /\ guards' = IF LockPanics(t) \/ r.panic THEN guards
                 ELSE Popped(guards, stack_ptr(t), Len(s))
    /\ last' = Event("pop", t, Outcome(t, err), None, None)
    /\ UNCHANGED edits

\* push_scope()
push_scope(t) ==
    LET s == Routed(t)
        pushed == push(s)
    IN
    /\ with_stack(t, pushed, "ok")
    /\ track' = IF LockPanics(t) THEN track
                ELSE Observe(track, t, "push", FALSE, s)
    /\ guards' = IF LockPanics(t) THEN guards
                 ELSE Append(guards, [thread |-> t,
                                      tok |-> token(stack_ptr(t), pushed),
                                      held |-> TRUE, live |-> TRUE,
                                      saved |-> s, dirty |-> FALSE])
    /\ last' = Event("push_scope", t, Outcome(t, "ok"), None, None)
    /\ UNCHANGED edits

\* ScopeGuard::default(): a guard that holds no token
default_guard(t) ==
    /\ guards' = Append(guards, [thread |-> t, tok |-> None, held |-> TRUE,
                                 live |-> FALSE, saved |-> <<>>, dirty |-> FALSE])
    /\ last' = Event("default_guard", t, "ok", None, None)
    /\ UNCHANGED <<PROCESS_STACK, poisoned, THREAD_STACK, seeded, track, edits>>

\* <ScopeGuard as Drop>::drop of guard i, run on thread t. The drop consumes
\* the guard whether or not it panics. `live` is lost when its layer is popped;
\* `dirty` keeps whether the layer it popped differed from the one it was cloned
\* from.
release(i, t) ==
    LET g == guards[i]
        s == Routed(t)
        r == check_and_pop(stack_ptr(t), s, g.tok)
        done == ~LockPanics(t) /\ r.err = "ok"
    IN
    /\ g.held
    /\ IF g.tok = None
       THEN /\ guards' = [guards EXCEPT ![i].held = FALSE]
            /\ last' = Event("drop", t, "ok", None, None)
            /\ UNCHANGED <<PROCESS_STACK, poisoned, THREAD_STACK, seeded, track>>
       ELSE /\ with_stack(t, r.layers, r.err)
            /\ track' = IF done THEN Observe(track, t, "pop", FALSE, s) ELSE track
            /\ guards' =
                  [(IF done THEN Popped(guards, stack_ptr(t), Len(s)) ELSE guards)
                     EXCEPT ![i] = [@ EXCEPT
                        !.held = FALSE, !.live = g.live /\ ~done, !.saved = <<>>,
                        !.dirty = done /\ s[Len(s)] # g.saved[Len(g.saved)]]]
            /\ last' = Event("drop", t, Outcome(t, r.err), None, None)
    /\ UNCHANGED edits

\* the guard is dropped on the thread that made it: it holds a raw pointer, so
\* it is not Send
drop(i) == release(i, guards[i].thread)

\* with_stack(|stack| stack.bind_client(c))
BindClient(t, c) ==
    LET s == Routed(t) IN
    /\ edits < MaxEdits
    /\ edits' = edits + 1
    /\ with_stack(t, bind_client(s, c), "ok")
    /\ track' = IF LockPanics(t) THEN track
                ELSE Observe(track, t, "edit", FALSE, s)
    /\ last' = Event("bind_client", t, Outcome(t, "ok"), None, Some(c))
    /\ UNCHANGED guards

\* with_stack(|stack| stack.client())
GetClient(t) ==
    /\ with_stack(t, Routed(t), "ok")
    /\ last' = Event("client", t, Outcome(t, "ok"),
                     IF LockPanics(t) THEN None ELSE client(Routed(t)), None)
    /\ UNCHANGED <<guards, track, edits>>

\* with_stack(|stack| f(stack.scope_mut())), f leaving the scope as `scope`;
\* `arg` names the call f made, where the caller keeps track of it
ConfigureAs(t, scope, arg) ==
    LET s == Routed(t) IN
    /\ edits < MaxEdits
    /\ edits' = edits + 1
    /\ with_stack(t, scope_mut_store(s, scope), "ok")
    /\ track' = IF LockPanics(t) THEN track
                ELSE Observe(track, t, "edit", FALSE, s)
    /\ last' = Event("configure", t, Outcome(t, "ok"), None, arg)
    /\ UNCHANGED guards

Configure(t, scope) == ConfigureAs(t, scope, None)

\* with_stack(|stack| f(stack.scope_mut())) where f panics, after pushing a
\* breadcrumb (`wrote`) or before
ConfigurePanics(t, wrote) ==
    LET s == Routed(t) IN
    /\ with_stack(t, IF wrote THEN scope_mut_store(s, push_back(scope_mut(s), "b1"))
                     ELSE s, "callback")
    /\ last' = Event("configure", t, Outcome(t, "callback"), None, None)
    /\ UNCHANGED <<guards, track, edits>>

Clear(t) == Configure(t, clear(scope_mut(Routed(t))))

SetUser(t, u) == Configure(t, set_user(scope_mut(Routed(t)), u))

SetTag(t, k, v) == Configure(t, set_tag(scope_mut(Routed(t)), k, v))

RemoveTag(t, k) == Configure(t, remove_tag(scope_mut(Routed(t)), k))

SetExtra(t, k, v) == Configure(t, set_extra(scope_mut(Routed(t)), k, v))

RemoveExtra(t, k) == Configure(t, remove_extra(scope_mut(Routed(t)), k))

\* with_client_and_scope(|client, scope| { scope.breadcrumbs.push_back(crumb);
\* Called(client) }), with R an enum whose default is NotCalled
with_client_and_scope(t, crumb) ==
    LET s == Routed(t)
        r == if_let_some_client(s, crumb)
    IN
    /\ edits < MaxEdits
    /\ edits' = edits + 1
    /\ with_stack(t, r.layers, "ok")
    /\ track' = IF LockPanics(t) THEN track
                ELSE Observe(track, t, "edit", FALSE, s)
    /\ last' = Event("with_client_and_scope", t, Outcome(t, "ok"),
                     IF LockPanics(t) THEN None ELSE r.ret, Some(crumb))
    /\ UNCHANGED guards

\* one more operation, run from its call to its return in one step, while the
\* behaviour has operations left
Tick == steps < MaxSteps /\ steps' = steps + 1 /\ UNCHANGED <<lock, calls>>

Next ==
    \/ \E t \in Threads : Tick /\ Push(t, FALSE)
    \/ \E t \in Threads : Tick /\ Pop(t, FALSE)
    \/ \E t \in Threads : Tick /\ push_scope(t)
    \/ \E i \in DOMAIN guards : Tick /\ drop(i)
    \/ \E t \in Threads, c \in Clients : Tick /\ BindClient(t, c)
    \/ \E t \in Threads : Tick /\ GetClient(t)
    \/ \E t \in Threads : Tick /\ Clear(t)
    \/ \E t \in Threads, u \in {None} \cup {Some(x) : x \in Users} :
          Tick /\ SetUser(t, u)
    \/ \E t \in Threads, k \in TagKeys, v \in TagValues : Tick /\ SetTag(t, k, v)
    \/ \E t \in Threads, k \in TagKeys : Tick /\ RemoveTag(t, k)
    \/ \E t \in Threads, k \in ExtraKeys, v \in ExtraValues : Tick /\ SetExtra(t, k, v)
    \/ \E t \in Threads, k \in ExtraKeys : Tick /\ RemoveExtra(t, k)
    \/ \E t \in Threads, b \in Crumbs : Tick /\ with_client_and_scope(t, b)

Spec == Init /\ [][Next]_vars

\* Guards made by push_scope() only, each dropped once and last-in-first-out
\* on its stack; no push() or pop() is called besides.
Lifo(i) ==
    \A j \in DOMAIN guards :
        (j > i /\ guards[j].thread = guards[i].thread) => ~guards[j].held

NextLifo ==
    \/ \E t \in Threads : Tick /\ push_scope(t)
    \/ \E i \in DOMAIN guards : Tick /\ Lifo(i) /\ drop(i)
    \/ \E t \in Threads, c \in Clients : Tick /\ BindClient(t, c)
    \/ \E t \in Threads : Tick /\ GetClient(t)
    \/ \E t \in Threads : Tick /\ Clear(t)
    \/ \E t \in Threads, u \in {None} \cup {Some(x) : x \in Users} :
          Tick /\ SetUser(t, u)
    \/ \E t \in Threads, k \in TagKeys, v \in TagValues : Tick /\ SetTag(t, k, v)
    \/ \E t \in Threads, k \in TagKeys : Tick /\ RemoveTag(t, k)
    \/ \E t \in Threads, k \in ExtraKeys, v \in ExtraValues : Tick /\ SetExtra(t, k, v)
    \/ \E t \in Threads, k \in ExtraKeys : Tick /\ RemoveExtra(t, k)
    \/ \E t \in Threads, b \in Crumbs : Tick /\ with_client_and_scope(t, b)

SpecLifo == Init /\ [][NextLifo]_vars

\* Guards only: made by push_scope() or by ScopeGuard::default(), dropped in
\* any order and on any thread; no push() or pop() is called besides.
NextGuards ==
    \/ \E t \in Threads : Tick /\ push_scope(t)
    \/ \E t \in Threads : Tick /\ default_guard(t)
    \/ \E i \in DOMAIN guards, t \in Threads : Tick /\ release(i, t)
    \/ \E t \in Threads, c \in Clients : Tick /\ BindClient(t, c)
    \/ \E t \in Threads, k \in TagKeys, v \in TagValues : Tick /\ SetTag(t, k, v)

SpecGuards == Init /\ [][NextGuards]_vars

\* with_stack(|stack| m(stack.scope_mut())) for one method call m
configure_scope(t, m) == ConfigureAs(t, call(m, scope_mut(Routed(t))), Some(m))

\* The methods of Scope, called on the current scope of the process stack,
\* starting from any scope and client on its one layer, with push() and pop().
InitScope ==
    /\ \E c \in {None, Some("C1")}, sc \in Scopes :
          PROCESS_STACK = <<[client |-> c, scope |-> sc]>>
    /\ poisoned = FALSE
    /\ THREAD_STACK = [t \in NonMain |-> <<>>]
    /\ seeded = {}
    /\ guards = <<>>
    /\ track = Idle
    /\ steps = 0
    /\ edits = 0
    /\ last = Event("init", MainRawId, "ok", None, None)
    /\ lock = None
    /\ calls = [t \in Threads |-> NoCall]

NextScope ==
    \/ Tick /\ Push(MainRawId, FALSE)
    \/ Tick /\ Pop(MainRawId, FALSE)
    \/ \E m \in TagCalls : Tick /\ configure_scope(MainRawId, m)
    \/ \E m \in ExtraCalls : Tick /\ configure_scope(MainRawId, m)

SpecScope == InitScope /\ [][NextScope]_vars

\* Operations that can panic under the process lock (pop() of the last layer,
\* a guard dropped out of order, a callback that panics), and the operations
\* that meet the poisoned lock afterwards.
NextPoison ==
    \/ \E t \in Threads : Tick /\ Pop(t, FALSE)
    \/ \E t \in Threads : Tick /\ push_scope(t)
    \/ \E i \in DOMAIN guards : Tick /\ drop(i)
    \/ \E t \in Threads, wrote \in BOOLEAN : Tick /\ ConfigurePanics(t, wrote)
    \/ \E t \in Threads, c \in Clients : Tick /\ BindClient(t, c)
    \/ \E t \in Threads : Tick /\ GetClient(t)

SpecPoison == Init /\ [][NextPoison]_vars

\* ------------------------------------------------- the lock, step by step
\* The calls that take the mutex of PROCESS_STACK, one step at a time: every
\* with_stack() of the main thread, and Stack::for_thread() in the first
\* with_stack() of any other thread. `op` is what the closure does: binds a
\* client, reads the client, sets the user, or ("nested") runs a callback that
\* calls with_stack() again.
LockOps ==
    {<<"bind_client", Some(c)>> : c \in Clients}
    \cup {<<"client", None>>, <<"set_user", Some("u1")>>, <<"nested", None>>}

\* what the closure of `op` leaves of the stack it is given, and returns
effect(op, arg, layers) ==
    CASE op = "bind_client" -> bind_client(layers, arg[1])
      [] op = "set_user" -> scope_mut_store(layers, set_user(scope_mut(layers), arg))
      [] OTHER -> layers

result(op, layers) == IF op = "client" THEN client(layers) ELSE None

ToIdle(t) == calls' = [calls EXCEPT ![t] = NoCall]
At(t, at, local) == calls' = [calls EXCEPT ![t].at = at, ![t].local = local]
Frame == UNCHANGED <<guards, track, steps, edits>>

\* with_stack(f) is called on a thread that has to take the lock
Call(t, op, arg) ==
    /\ calls[t].at = "idle"
    /\ is_main_thread(t) \/ t \notin seeded
    /\ calls' = [calls EXCEPT ![t] = [at |-> "locking", op |-> op, arg |-> arg,
                                      local |-> <<>>]]
    /\ Frame
    /\ UNCHANGED <<PROCESS_STACK, poisoned, THREAD_STACK, seeded, last, lock>>

\* with_stack(f) on a thread that has its own stack: no lock; a callback that
\* calls with_stack() again finds the RefCell borrowed and panics
Local(t, op, arg) ==
    /\ calls[t].at = "idle"
    /\ ~is_main_thread(t) /\ t \in seeded
    /\ THREAD_STACK' = [THREAD_STACK EXCEPT ![t] = effect(op, arg, @)]
    /\ last' = Event(op, t, IF op = "nested" THEN "already_borrowed" ELSE "ok",
                     result(op, THREAD_STACK[t]), arg)
    /\ Frame
    /\ UNCHANGED <<PROCESS_STACK, poisoned, seeded, lock, calls>>

\* mutant: lock() does not wait for the mutex to be free
lock_any(holder) == TRUE

\* Mutex::lock() returns once no thread holds the mutex
lock_free(holder) == holder = None

\* PROCESS_STACK.lock().unwrap(): waits for the mutex; panics if it is poisoned
Lock(t) ==
    /\ calls[t].at = "locking"
    /\ lock_free(lock)
    /\ IF poisoned
       THEN /\ ToIdle(t)
            /\ last' = Event(calls[t].op, t, "poisoned", None, calls[t].arg)
            /\ UNCHANGED lock
       ELSE /\ lock' = Some(t)
            /\ At(t, "held", <<>>)
            /\ UNCHANGED last
    /\ Frame
    /\ UNCHANGED <<PROCESS_STACK, poisoned, THREAD_STACK, seeded>>

\* the closure starts: on the main thread it is handed the stack; in
\* Stack::for_thread it reads stack.client() first
Enter(t) ==
    /\ calls[t].at = "held"
    /\ At(t, "entered",
          IF is_main_thread(t) THEN PROCESS_STACK
          ELSE <<[client |-> client(PROCESS_STACK), scope |-> DefaultScope]>>)
    /\ Frame
    /\ UNCHANGED <<PROCESS_STACK, poisoned, THREAD_STACK, seeded, last, lock>>

\* the closure ends: on the main thread it has changed the stack it was handed;
\* in Stack::for_thread it clones stack.scope_mut() into the layer it builds
Finish(t) ==
    /\ calls[t].at = "entered"
    /\ calls[t].op # "nested" \/ ~is_main_thread(t)
    /\ IF is_main_thread(t)
       THEN /\ PROCESS_STACK' = effect(calls[t].op, calls[t].arg, calls[t].local)
            /\ At(t, "done", calls[t].local)
       ELSE /\ At(t, "done", <<[client |-> calls[t].local[1].client,
                               scope |-> scope_mut(PROCESS_STACK)]>>)
            /\ UNCHANGED PROCESS_STACK
    /\ Frame
    /\ UNCHANGED <<poisoned, THREAD_STACK, seeded, last, lock>>

\* the MutexGuard is dropped; a thread other than the main one now has its
\* stack, and runs on it the closure it was called with
Unlock(t) ==
    /\ calls[t].at = "done"
    /\ lock' = None
    /\ ToIdle(t)
    /\ IF is_main_thread(t)
       THEN /\ last' = Event(calls[t].op, t, "ok",
                             result(calls[t].op, calls[t].local), calls[t].arg)
            /\ UNCHANGED <<THREAD_STACK, seeded>>
       ELSE /\ THREAD_STACK' = [THREAD_STACK EXCEPT ![t] =
                                  effect(calls[t].op, calls[t].arg, calls[t].local)]
            /\ seeded' = seeded \cup {t}
            /\ last' = Event(calls[t].op, t,
                             IF calls[t].op = "nested" THEN "already_borrowed"
                             ELSE "ok",
                             result(calls[t].op, calls[t].local), calls[t].arg)
    /\ Frame
    /\ UNCHANGED <<PROCESS_STACK, poisoned>>

\* the callback of the main thread calls with_stack() again: lock() on a mutex
\* the thread already holds does not return; it deadlocks or it panics,
\* whichever the platform's mutex does
Relock(t, deadlocks) ==
    /\ calls[t].at = "entered"
    /\ calls[t].op = "nested"
    /\ is_main_thread(t)
    /\ IF deadlocks
       THEN /\ At(t, "deadlocked", calls[t].local)
            /\ UNCHANGED <<poisoned, last, lock>>
       ELSE /\ ToIdle(t)
            /\ poisoned' = TRUE
            /\ lock' = None
            /\ last' = Event("nested", t, "relock", None, None)
    /\ Frame
    /\ UNCHANGED <<PROCESS_STACK, THREAD_STACK, seeded>>

\* what a thread does by itself once it is in a call
Proceed(t) ==
    \/ Enter(t)
    \/ Finish(t)
    \/ Unlock(t)
    \/ \E deadlocks \in BOOLEAN : Relock(t, deadlocks)

NextLock ==
    \/ \E t \in Threads, o \in LockOps : Call(t, o[1], o[2])
    \/ \E t \in Threads, o \in LockOps : Local(t, o[1], o[2])
    \/ \E t \in Threads : Lock(t)
    \/ \E t \in Threads : Enter(t)
    \/ \E t \in Threads : Finish(t)
    \/ \E t \in Threads : Unlock(t)
    \/ \E t \in Threads, deadlocks \in BOOLEAN : Relock(t, deadlocks)

SpecLock == Init /\ [][NextLock]_vars

\* the same under fair scheduling: a thread in a call takes its next step, and
\* a thread that waits for the lock gets it if it is free again and again
SpecLockFair ==
    /\ Init
    /\ [][NextLock]_vars
    /\ \A t \in Threads : WF_vars(Proceed(t)) /\ SF_vars(Lock(t))

\* Sequences of push() and pop() calls, with bindings and mutations between
\* them; any push or pop may be the one the observed sequence begins with.
NextSeq ==
    \/ \E t \in Threads, begin \in BOOLEAN : Tick /\ Push(t, begin)
    \/ \E t \in Threads, begin \in BOOLEAN : Tick /\ Pop(t, begin)
    \/ \E t \in Threads, c \in Clients : Tick /\ BindClient(t, c)
    \/ \E t \in Threads : Tick /\ Clear(t)
    \/ \E t \in Threads, u \in {None} \cup {Some(x) : x \in Users} :
          Tick /\ SetUser(t, u)
    \/ \E t \in Threads, k \in TagKeys, v \in TagValues : Tick /\ SetTag(t, k, v)
    \/ \E t \in Threads, k \in TagKeys : Tick /\ RemoveTag(t, k)
    \/ \E t \in Threads, k \in ExtraKeys, v \in ExtraValues : Tick /\ SetExtra(t, k, v)
    \/ \E t \in Threads, k \in ExtraKeys : Tick /\ RemoveExtra(t, k)
    \/ \E t \in Threads, b \in Crumbs : Tick /\ with_client_and_scope(t, b)

SpecSeq == Init /\ [][NextSeq]_vars

\* ------------------------------------------------------- reading the stacks
StackNow(t) == IF is_main_thread(t) THEN PROCESS_STACK ELSE THREAD_STACK[t]
StackNext(t) == IF t = MainRawId THEN PROCESS_STACK' ELSE THREAD_STACK'[t]
Exists(t) == t = MainRawId \/ t \in seeded
Top(layers) == layers[Len(layers)]
Below(layers) == SubSeq(layers, 1, Len(layers) - 1)

\* the stack thread t's next operation finds: its own, or, on its first
\* access, the one layer snapshotted from the top of the process stack
Found(t) ==
    IF t = MainRawId THEN PROCESS_STACK
    ELSE IF t \in seeded THEN THREAD_STACK[t]
    ELSE <<[client |-> Top(PROCESS_STACK).client, scope |-> Top(PROCESS_STACK).scope]>>

\* the step is operation `op`, and its closure ran to the end
Ran(op) == last'.op = op /\ last'.err = "ok"
\* the step is operation `op`, and its closure was entered
Entered(op) == last'.op = op /\ last'.err # "poisoned"
\* the guard the step drops
Dropped(i) == guards[i].held /\ ~guards'[i].held

\* ---------------------------------------------------------------------- C1
\* C1: a scope mutation made through scope_mut() on the current layer (clear,
\* set_user, set_tag, remove_tag, set_extra, remove_extra, a breadcrumb added)
\* leaves the depth and every layer below the current one as they were.
C1_Isolation ==
    [][(Ran("configure") \/ Ran("with_client_and_scope")) =>
         LET t == last'.thread IN
         /\ Len(StackNext(t)) = Len(Found(t))
         /\ \A i \in 1..(Len(Found(t)) - 1) : StackNext(t)[i] = Found(t)[i]]_vars

\* a stack of two or more layers whose current scope differs from the one
\* below, after a mutation
C1_Witness ==
    /\ last.op \in {"configure", "with_client_and_scope"}
    /\ last.err = "ok"
    /\ LET s == StackNow(last.thread) IN
       /\ Len(s) >= 2
       /\ Top(s).scope # s[Len(s) - 1].scope
       /\ s[Len(s) - 1].scope # DefaultScope

\* ---------------------------------------------------------------------- C2
\* C2: push() adds exactly one layer, which has the client and the scope of the
\* layer that was current, and leaves the layers that existed as they were.
C2_PushInherits ==
    [][(Ran("push") \/ Ran("push_scope")) =>
         LET t == last'.thread IN
         /\ Len(StackNext(t)) = Len(Found(t)) + 1
         /\ Top(StackNext(t)).client = Top(Found(t)).client
         /\ Top(StackNext(t)).scope = Top(Found(t)).scope
         /\ Below(StackNext(t)) = Found(t)]_vars

\* a layer was pushed that inherited a bound client and a non-empty scope
C2_Witness ==
    /\ last.op = "push"
    /\ last.err = "ok"
    /\ LET s == StackNow(last.thread) IN
       /\ Top(s) = s[Len(s) - 1]
       /\ Top(s).client # None
       /\ Top(s).scope # DefaultScope

\* ---------------------------------------------------------------------- C3
\* C3: with guards made by push_scope() only and dropped last-in-first-out on
\* their own stack, every drop succeeds and leaves the depth, the current
\* client and the current scope as they were just before that push_scope(),
\* whatever was bound or mutated on the pushed layer meanwhile.
C3_LifoRelease ==
    [][\A i \in DOMAIN guards :
         Dropped(i) =>
            LET t == guards[i].thread
                before == guards[i].saved
            IN /\ last'.op = "drop" /\ last'.err = "ok"
               /\ Len(StackNext(t)) = Len(before)
               /\ Top(StackNext(t)).client = Top(before).client
               /\ Top(StackNext(t)).scope = Top(before).scope]_vars

\* a guard was dropped whose layer had been changed after it was pushed
C3_Witness ==
    /\ last.op = "drop"
    /\ last.err = "ok"
    /\ \E i \in DOMAIN guards :
          /\ guards[i].thread = last.thread
          /\ ~guards[i].held
          /\ guards[i].dirty
          /\ Len(StackNow(last.thread)) = guards[i].tok[2] - 1

\* ---------------------------------------------------------------------- C4
\* C4: every stack that exists has at least one layer; pop() with one layer
\* left panics and removes nothing; pop() with n >= 2 layers removes exactly
\* the current one.
DepthOK ==
    /\ Len(PROCESS_STACK) >= 1
    /\ \A t \in seeded : Len(THREAD_STACK[t]) >= 1

C4_Depth ==
    /\ DepthOK
    /\ [][/\ DepthOK'
          /\ Entered("pop") =>
                LET t == last'.thread IN
                IF Len(Found(t)) = 1
                THEN last'.err = "pop_empty" /\ StackNext(t) = Found(t)
                ELSE last'.err = "ok" /\ StackNext(t) = Below(Found(t))]_vars

\* a pop just failed on a thread's stack of one layer
C4_Witness ==
    /\ last.op = "pop"
    /\ last.err = "pop_empty"
    /\ last.thread \in seeded
    /\ Len(THREAD_STACK[last.thread]) = 1

\* ---------------------------------------------------------------------- C5
\* C5: a guard dropped while the depth differs from the depth its token
\* recorded panics and pops nothing; so does G1 dropped while the layer of G2,
\* pushed on top of G1's layer, is still on the stack.
C5_OutOfOrder ==
    [][\A i \in DOMAIN guards :
         Dropped(i) =>
            LET g == guards[i]
                t == g.thread
                nested == \E j \in DOMAIN guards :
                             /\ j > i /\ guards[j].thread = t
                             /\ g.live /\ guards[j].live
            IN (g.tok[2] # Len(Found(t)) \/ nested) =>
                  /\ last'.err \in {"token_mismatch", "poisoned"}
                  /\ StackNext(t) = Found(t)]_vars

\* G1 was dropped before G2, the drop failed and G2's layer is still current
C5_Witness ==
    /\ last.op = "drop"
    /\ last.err = "token_mismatch"
    /\ \E i, j \in DOMAIN guards :
          /\ i < j /\ guards[i].thread = last.thread /\ guards[j].thread = last.thread
          /\ ~guards[i].held /\ guards[j].held /\ guards[j].live
          /\ guards[i].tok[2] < guards[j].tok[2]
          /\ Len(StackNow(last.thread)) = guards[j].tok[2]

\* ---------------------------------------------------------------------- C6
\* C6: a guard's drop removes a layer only if that layer is the one its
\* push_scope() pushed; once that layer was popped, the drop panics.
C6_GuardPopsOwnLayer ==
    [][\A i \in DOMAIN guards :
         (Dropped(i) /\ ~guards[i].live) =>
            /\ last'.err # "ok"
            /\ StackNext(guards[i].thread) = Found(guards[i].thread)]_vars

\* ---------------------------------------------------------------------- C7
SeqRestored ==
    LET now == StackNow(track.ptr) IN
    /\ Len(now) = Len(track.start)
    /\ Top(now).client = Top(track.start).client
    /\ Top(now).scope = Top(track.start).scope

\* C7 as stated: once as many pops as pushes were made, the depth, the current
\* client and the current scope are those the sequence began with.
C7_Original == track.phase = "done" => SeqRestored

\* C7 amended: the same, for a sequence in which no pop removes a layer that
\* was there when it began (its depth never drops below the starting depth).
C7_Balanced == (track.phase = "done" /\ track.first = "push") => SeqRestored

\* such a sequence is over, and a client was bound or the scope mutated in it
C7_Witness ==
    track.phase = "done" /\ track.first = "push" /\ track.edited

\* ---------------------------------------------------------------------- C8
\* C8: bind_client(c) sets the client of the current layer of the routed stack
\* and changes nothing else; client() returns the client of the current layer.
C8_BindScoped ==
    [][LET t == last'.thread IN
       /\ Ran("bind_client") =>
             /\ Len(StackNext(t)) = Len(Found(t))
             /\ Top(StackNext(t)).client = last'.arg
             /\ Top(StackNext(t)).scope = Top(Found(t)).scope
             /\ Below(StackNext(t)) = Below(Found(t))
       /\ Ran("client") =>
             /\ last'.ret = Top(Found(t)).client
             /\ StackNext(t) = Found(t)]_vars

\* a client was bound on a pushed layer over a layer bound to another client
C8_Witness ==
    /\ last.op = "bind_client"
    /\ last.err = "ok"
    /\ LET s == StackNow(last.thread) IN
       /\ Len(s) >= 2
       /\ Top(s).client = last.arg
       /\ s[Len(s) - 1].client # None
       /\ Top(s).client # s[Len(s) - 1].client

\* ---------------------------------------------------------------------- C9
\* C9: a non-main thread has no stack until its first operation; that operation
\* creates it from one layer holding the client and the scope of the current
\* layer of the process stack, and runs on it.
C9_Seeding ==
    /\ \A t \in NonMain : t \notin seeded /\ THREAD_STACK[t] = <<>>
    /\ [][\A t \in NonMain :
            LET top == Top(PROCESS_STACK)
                seed == <<[client |-> top.client, scope |-> top.scope]>>
                made == THREAD_STACK'[t]
            IN
            /\ (t \notin seeded') => THREAD_STACK'[t] = <<>>
            /\ (t \notin seeded /\ last'.thread = t /\ ~poisoned) => t \in seeded'
            /\ (t \notin seeded /\ t \in seeded') =>
                  /\ last'.thread = t
                  /\ PROCESS_STACK' = PROCESS_STACK
                  /\ last'.op \in {"client", "pop"} => made = seed
                  /\ last'.op = "client" => last'.ret = top.client
                  /\ last'.op \in {"push", "push_scope"} => made = seed \o seed
                  /\ last'.op = "bind_client" =>
                        made = <<[client |-> last'.arg, scope |-> top.scope]>>
                  /\ last'.op \in {"configure", "with_client_and_scope"} =>
                        Len(made) = 1 /\ made[1].client = top.client]_vars

\* a thread's first operation, a lookup, left it the one layer snapshotted
\* from the top of a process stack whose bottom layer differs from it
C9_Witness ==
    /\ last.op = "client"
    /\ last.thread \in seeded
    /\ Len(PROCESS_STACK) >= 2
    /\ PROCESS_STACK[1] # Top(PROCESS_STACK)
    /\ THREAD_STACK[last.thread] = <<Top(PROCESS_STACK)>>
    /\ last.ret = Top(PROCESS_STACK).client
    /\ last.ret # None

\* --------------------------------------------------------------------- C10
\* C10: an operation of one thread changes no stack but the one it is routed
\* to: not another thread's stack, and, from a non-main thread, not the process
\* stack.
C10_Independent ==
    [][LET t == last'.thread IN
       /\ \A u \in NonMain \ {t} :
             /\ THREAD_STACK'[u] = THREAD_STACK[u]
             /\ (u \in seeded') = (u \in seeded)
       /\ (t # MainRawId) =>
             (PROCESS_STACK' = PROCESS_STACK /\ poisoned' = poisoned)]_vars

\* three stacks that exist and differ from one another
C10_Witness ==
    /\ seeded = NonMain
    /\ THREAD_STACK[1] # THREAD_STACK[2]
    /\ THREAD_STACK[1] # PROCESS_STACK
    /\ THREAD_STACK[2] # PROCESS_STACK
    /\ Len(THREAD_STACK[1]) >= 2

\* --------------------------------------------------------------------- C11
\* C11: an operation of the main thread (the one is_main_thread() designates)
\* runs on the process stack and neither creates nor touches a thread's stack;
\* an operation of any other thread runs on that thread's own stack and leaves
\* the process stack alone; once its stack exists, such a thread never takes the
\* process lock again, so a poisoned lock no longer stops it.
C11_Routing ==
    [][LET t == last'.thread
           applied(now, next) ==
               /\ Ran("push_scope") => next = Append(now, Top(now))
               /\ Ran("drop") => next = Below(now)
               /\ Ran("bind_client") =>
                     Len(next) = Len(now) /\ Top(next).client = last'.arg
               /\ Ran("client") => next = now /\ last'.ret = Top(now).client
               /\ (Ran("configure") \/ Ran("with_client_and_scope")) =>
                     /\ Len(next) = Len(now)
                     /\ Top(next).client = Top(now).client
       IN
       /\ (t = MainRawId) =>
             /\ THREAD_STACK' = THREAD_STACK
             /\ seeded' = seeded
             /\ applied(PROCESS_STACK, PROCESS_STACK')
       /\ (t # MainRawId) =>
             /\ PROCESS_STACK' = PROCESS_STACK
             /\ poisoned' = poisoned
             /\ \A u \in NonMain \ {t} : THREAD_STACK'[u] = THREAD_STACK[u]
             /\ seeded' \subseteq seeded \cup {t}
             /\ (t \in seeded') => applied(Found(t), THREAD_STACK'[t])
             /\ (t \in seeded) => last'.err # "poisoned"]_vars

\* every stack exists, the process lock is poisoned, and a thread that already
\* had its stack has just pushed a scope on it all the same
C11_Witness ==
    /\ poisoned
    /\ last.op = "push_scope"
    /\ last.err = "ok"
    /\ last.thread \in NonMain
    /\ Len(THREAD_STACK[last.thread]) >= 2
    /\ Len(PROCESS_STACK) = 1

\* --------------------------------------------------------------------- C12
\* C12: with_client_and_scope() on a current layer without a client does not
\* call the callback, returns the default and leaves the stack as it was; with
\* a client bound it calls the callback once, with that client and the current
\* scope, returns its result, and only the current scope can have changed.
C12_WithClientAndScope ==
    [][Entered("with_client_and_scope") =>
         LET t == last'.thread
             now == Found(t)
             next == StackNext(t)
         IN
         /\ last'.err = "ok"
         /\ IF Top(now).client = None
            THEN last'.ret = <<"default">> /\ next = now
            ELSE /\ last'.ret = <<"called", Top(now).client>>
                 /\ Len(next) = Len(now)
                 /\ Below(next) = Below(now)
                 /\ Top(next).client = Top(now).client
                 /\ Top(next).scope.breadcrumbs =
                       Top(now).scope.breadcrumbs \o last'.arg
                 /\ \A f \in {"user", "extra", "tags"} :
                       Top(next).scope[f] = Top(now).scope[f]]_vars

\* the callback ran on a pushed layer with the client bound below it
C12_Witness ==
    /\ last.op = "with_client_and_scope"
    /\ last.err = "ok"
    /\ last.ret # <<"default">>
    /\ LET s == StackNow(last.thread) IN
       /\ Len(s) >= 2
       /\ last.ret = <<"called", Top(s).client>>
       /\ Top(s).scope.breadcrumbs # <<>>
       /\ s[Len(s) - 1].scope.breadcrumbs = <<>>

\* --------------------------------------------------------------------- C13
\* C13: a guard made by push_scope() on one stack and dropped on a thread that
\* is routed to another stack panics and pops nothing, on either stack, even
\* when both stacks have the same depth.
C13_CrossStack ==
    [][\A i \in DOMAIN guards :
         (Dropped(i) /\ guards[i].tok # None /\ guards[i].thread # last'.thread) =>
            LET u == last'.thread IN
            /\ last'.op = "drop"
            /\ last'.err \in {"token_mismatch", "poisoned"}
            /\ PROCESS_STACK' = PROCESS_STACK
            /\ \A w \in seeded : THREAD_STACK'[w] = THREAD_STACK[w]
            /\ (u \in seeded' \ seeded) => THREAD_STACK'[u] = Found(u)]_vars

\* a guard was dropped on another thread's stack of the very depth its token
\* recorded; the drop failed at the token and the guard's layer is still there
C13_Witness ==
    /\ last.op = "drop"
    /\ last.err = "token_mismatch"
    /\ \E i \in DOMAIN guards :
          /\ ~guards[i].held
          /\ guards[i].tok # None
          /\ guards[i].thread # last.thread
          /\ guards[i].live
          /\ guards[i].tok[2] = Len(StackNow(last.thread))
          /\ guards[i].tok[2] = Len(StackNow(guards[i].thread))

\* --------------------------------------------------------------------- C19
\* guards whose drop failed at the token while their layer stays on stack p
FailedOn(p) ==
    {i \in DOMAIN guards :
        /\ guards[i].tok # None
        /\ guards[i].tok[1] = p
        /\ ~guards[i].held
        /\ guards[i].live}

\* guard j is the next to drop last-in-first-out on its own stack, above the
\* layer of a guard whose drop failed and with no such layer above its own
NextAboveFailed(j) ==
    LET g == guards[j] IN
    /\ g.held
    /\ g.tok # None
    /\ stack_ptr(g.thread) = g.tok[1]
    /\ Lifo(j)
    /\ \E i \in FailedOn(g.tok[1]) : guards[i].tok[2] < g.tok[2]
    /\ \A i \in FailedOn(g.tok[1]) : guards[i].tok[2] < g.tok[2]

\* a drop that fails at the token leaves the routed stack as it was
FailedDropKeeps ==
    (last'.op = "drop" /\ last'.err = "token_mismatch") =>
        StackNext(last'.thread) = Found(last'.thread)

\* the drop of guard j by its own thread succeeds and pops its layer
DropSucceeds(j) ==
    LET t == guards[j].thread IN
    /\ last'.err = "ok"
    /\ StackNext(t) = Below(Found(t))
    /\ Len(StackNext(t)) = guards[j].tok[2] - 1

\* C19 as stated: a drop that fails at the token changes nothing on the routed
\* stack, and the guards still held on that stack can then be dropped
\* last-in-first-out down to the layer of the failed guard.
C19_Original ==
    [][/\ FailedDropKeeps
       /\ \A j \in DOMAIN guards :
             (Dropped(j) /\ last'.thread = guards[j].thread /\ NextAboveFailed(j))
                => DropSucceeds(j)]_vars

\* C19 amended: the same, the second half on the stacks of non-main threads
\* only: on the process stack the failed drop poisons the lock.
C19_FailedRelease ==
    [][/\ FailedDropKeeps
       /\ \A j \in DOMAIN guards :
             (/\ Dropped(j) /\ last'.thread = guards[j].thread
              /\ NextAboveFailed(j)
              /\ guards[j].thread # MainRawId)
                => DropSucceeds(j)]_vars

\* on a thread's stack G1's drop failed under G2, and G2 was dropped after it:
\* the stack is down to G1's layer, which stays
C19_Witness ==
    /\ last.op = "drop"
    /\ last.err = "ok"
    /\ last.thread # MainRawId
    /\ \E i, j \in DOMAIN guards :
          /\ i \in FailedOn(last.thread)
          /\ guards[i].thread = last.thread
          /\ guards[j].thread = last.thread
          /\ ~guards[j].held /\ ~guards[j].live
          /\ guards[j].tok # None
          /\ guards[j].tok[2] = guards[i].tok[2] + 1
          /\ Len(StackNow(last.thread)) = guards[i].tok[2]

\* --------------------------------------------------------------------- C20
\* C20: every token push_scope() takes records a depth of two or more, so a
\* drop that passes the token check finds two layers or more and never fails
\* with "pop from empty stack"; the drop of a guard without a token pops
\* nothing, touches no stack and does not fail.
C20_TokenDepth ==
    [][/\ \A i \in DOMAIN guards' :
             guards'[i].tok # None => guards'[i].tok[2] >= 2
       /\ \A i \in DOMAIN guards :
             Dropped(i) =>
                IF guards[i].tok = None
                THEN /\ last'.err = "ok"
                     /\ UNCHANGED <<PROCESS_STACK, poisoned, THREAD_STACK, seeded>>
                ELSE /\ last'.err # "pop_empty"
                     /\ last'.err \notin {"token_mismatch", "poisoned"} =>
                           /\ last'.err = "ok"
                           /\ Len(Found(last'.thread)) >= 2
                           /\ StackNext(last'.thread) = Below(Found(last'.thread))]_vars

\* a guard without a token was dropped on a thread that still has no stack,
\* with the process lock poisoned, and a guard with a token was dropped too
C20_Witness ==
    /\ last.op = "drop"
    /\ last.err = "ok"
    /\ last.thread \in NonMain \ seeded
    /\ poisoned
    /\ \E i, j \in DOMAIN guards :
          /\ ~guards[i].held /\ guards[i].tok = None
          /\ ~guards[j].held /\ guards[j].tok # None

\* --------------------------------------------------------------------- C14
\* the method the step called on the current scope
Called(fn) ==
    /\ Entered("configure")
    /\ last'.arg # None
    /\ last'.arg[1].fn = fn

\* C14: clear() leaves the current scope without breadcrumbs, user, tags and
\* extra, whatever it held; the depth, the layers below and the current client
\* stay, so that the pop that follows shows the parent's data.
C14_Clear ==
    [][/\ Called("clear") =>
             LET now == PROCESS_STACK
                 next == PROCESS_STACK'
             IN
             /\ last'.err = "ok"
             /\ Top(next).scope.breadcrumbs = <<>>
             /\ Top(next).scope.user = None
             /\ Top(next).scope.tags = {}
             /\ Top(next).scope.extra = {}
             /\ Len(next) = Len(now)
             /\ Below(next) = Below(now)
             /\ Top(next).client = Top(now).client
       /\ (/\ last.op = "configure" /\ last.err = "ok" /\ last.arg[1].fn = "clear"
           /\ Ran("pop")) =>
             PROCESS_STACK' = Below(PROCESS_STACK)]_vars

\* clear() emptied a pushed scope that had inherited breadcrumbs, a user, tags
\* and extra from the layer below, which still has them
C14_Witness ==
    /\ last.op = "configure"
    /\ last.err = "ok"
    /\ last.arg = Some([fn |-> "clear"])
    /\ Len(PROCESS_STACK) >= 2
    /\ Top(PROCESS_STACK).scope = DefaultScope
    /\ Top(PROCESS_STACK).client # None
    /\ LET parent == PROCESS_STACK[Len(PROCESS_STACK) - 1].scope IN
       /\ parent.breadcrumbs # <<>>
       /\ parent.user # None
       /\ parent.tags # {}
       /\ parent.extra # {}

\* --------------------------------------------------------------------- C15
\* the values a map holds for key k, and its entries for the other keys
Lookup(m, k) == {p[2] : p \in {q \in m : q[1] = k}}
Others(m, k) == {p \in m : p[1] # k}

\* the string a tag value is stored as
Shown(v) == IF "int" \in DOMAIN v THEN (IF v.int = 42 THEN "42" ELSE "?") ELSE v.str

\* C15: set_tag(k, v) makes tags hold v, as a string, for k and nothing else
\* for k; remove_tag(k) leaves nothing for k; both leave the other keys and
\* the other fields alone. set_extra and remove_extra do so on extra, set_user
\* replaces the user. None of them fails, and no other layer changes.
C15_FieldOps ==
    [][(Entered("configure") /\ last'.arg # None) =>
         LET m == last'.arg[1]
             now == Top(PROCESS_STACK).scope
             next == Top(PROCESS_STACK').scope
             same(fields) == \A f \in fields : next[f] = now[f]
         IN
         /\ last'.err = "ok"
         /\ Len(PROCESS_STACK') = Len(PROCESS_STACK)
         /\ Below(PROCESS_STACK') = Below(PROCESS_STACK)
         /\ Top(PROCESS_STACK').client = Top(PROCESS_STACK).client
         /\ (m.fn = "set_tag") =>
               /\ Lookup(next.tags, m.key) = {Shown(m.value)}
               /\ Others(next.tags, m.key) = Others(now.tags, m.key)
               /\ same({"extra", "user", "breadcrumbs"})
         /\ (m.fn = "remove_tag") =>
               /\ Lookup(next.tags, m.key) = {}
               /\ Others(next.tags, m.key) = Others(now.tags, m.key)
               /\ same({"extra", "user", "breadcrumbs"})
         /\ (m.fn = "set_extra") =>
               /\ Lookup(next.extra, m.key) = {m.value}
               /\ Others(next.extra, m.key) = Others(now.extra, m.key)
               /\ same({"tags", "user", "breadcrumbs"})
         /\ (m.fn = "remove_extra") =>
               /\ Lookup(next.extra, m.key) = {}
               /\ Others(next.extra, m.key) = Others(now.extra, m.key)
               /\ same({"tags", "user", "breadcrumbs"})
         /\ (m.fn = "set_user") =>
               /\ next.user = m.user
               /\ same({"tags", "extra", "breadcrumbs"})]_vars

\* set_tag("env", "prod") has just replaced the "42" that "env" had, next to
\* another tag, on a scope that also has a user, extra and breadcrumbs
C15_Witness ==
    /\ steps = 1
    /\ last.op = "configure"
    /\ last.err = "ok"
    /\ last.arg[1].fn = "set_tag"
    /\ LET scope == Top(PROCESS_STACK).scope IN
       /\ scope.tags = {<<"env", "prod">>, <<"build", "prod">>}
       /\ scope.user # None
       /\ scope.extra # {}
       /\ scope.breadcrumbs # <<>>

\* --------------------------------------------------------------------- C16
\* the panics a closure can raise while it holds the routed stack
Panics == {"pop_empty", "token_mismatch", "callback"}

\* C16: a panic inside an operation that holds the process lock (pop() of the
\* last layer, a token mismatch, a callback that panics) poisons it for good;
\* from then on every operation of the main thread and every first operation
\* of a thread without a stack panics at the lock and changes nothing, while a
\* thread that has its stack goes on as before.
C16_Poisoned ==
    [][LET t == last'.thread IN
       /\ poisoned => poisoned'
       /\ (t = MainRawId /\ last'.err \in Panics) => poisoned'
       /\ (t # MainRawId \/ last'.err = "ok") => poisoned' = poisoned
       /\ (poisoned /\ (t = MainRawId \/ t \notin seeded)) =>
             /\ last'.err = "poisoned"
             /\ last'.ret = None
             /\ UNCHANGED <<PROCESS_STACK, THREAD_STACK, seeded>>
       /\ (poisoned /\ t \in seeded) =>
             /\ last'.err # "poisoned"
             /\ Ran("push_scope") =>
                   THREAD_STACK'[t] = Append(THREAD_STACK[t], Top(THREAD_STACK[t]))
             /\ Ran("bind_client") => Top(THREAD_STACK'[t]).client = last'.arg
             /\ Ran("client") => last'.ret = Top(THREAD_STACK[t]).client
             /\ Entered("pop") =>
                   (last'.err = "ok") = (Len(THREAD_STACK[t]) >= 2)]_vars

\* the lock is poisoned; one thread has a stack with a pushed layer, and the
\* first operation of another thread has just failed at the lock
C16_Witness ==
    /\ poisoned
    /\ last.err = "poisoned"
    /\ last.thread \in NonMain \ seeded
    /\ \E u \in seeded : Len(THREAD_STACK[u]) >= 2


\* ----------------------------------------------------------------- C17
\* the threads that are inside the closure of with_process_stack()
Inside == {t \in Threads : calls[t].at \in {"held", "entered", "done", "deadlocked"}}

\* what the closure of thread t has seen of the process stack is what the
\* process stack is now, apart from what the closure itself has written
SeesCurrent(t) ==
    CASE calls[t].at = "entered" /\ is_main_thread(t) ->
             calls[t].local = PROCESS_STACK
      [] calls[t].at = "entered" /\ ~is_main_thread(t) ->
             calls[t].local[1].client = client(PROCESS_STACK)
      [] calls[t].at = "done" /\ is_main_thread(t) ->
             PROCESS_STACK = effect(calls[t].op, calls[t].arg, calls[t].local)
      [] calls[t].at = "done" /\ ~is_main_thread(t) ->
             calls[t].local[1] = PROCESS_STACK[Len(PROCESS_STACK)]
      [] OTHER -> TRUE

\* C17: accesses to the process stack are linearized. At most one closure (an
\* operation of the main thread, or the snapshot another thread takes for its
\* first layer) is inside with_process_stack() at a time, it is the one that
\* holds the lock, and from the lock's acquisition to its release the process
\* stack is what that closure read and wrote: no other access falls between
\* its reads and its writes.
C17_Linearized ==
    /\ Cardinality(Inside) <= 1
    /\ \A t \in Inside : lock = Some(t)
    /\ \A t \in Threads : SeesCurrent(t)

\* C17 witness: the main thread has written a client into the process stack
\* and still holds the lock, while both other threads wait for the lock to take
\* their snapshots.
C17_Witness ==
    /\ calls[MainRawId].at = "done"
    /\ calls[MainRawId].op = "bind_client"
    /\ client(PROCESS_STACK) # None
    /\ \A t \in NonMain : calls[t].at = "locking"

\* ----------------------------------------------------------------- C18
\* C18: no operation blocks forever. Under fair scheduling every call that
\* takes the lock of the process stack returns or panics, also a call made from
\* the callback of a call that is running on the same thread.
C18_NoBlocking ==
    \A t \in Threads : (calls[t].at # "idle") ~> (calls[t].at = "idle")

====
